---- MODULE Spec2Model ----
(***************************************************************************)
(* Klippy clip store (src/src/lib/store.ts): the list snapshot, loading    *)
(* flag, query text, selection and pause flag of the clipboard-history     *)
(* viewer, the debounced search timer, and the gateway requests in flight. *)
(* Every async store operation is a frame in `calls`; its suspension       *)
(* points are the gateway calls, which settle in any order.                *)
(***************************************************************************)
EXTENDS Integers, Sequences, FiniteSets, TLC

VARIABLES
    items,          \* store.ts:38  displayed list snapshot, a sequence of clips
    loading,        \* store.ts:39
    query,          \* store.ts:40  raw query text, a sequence of characters
    selectedIndex,  \* store.ts:41
    settings,       \* store.ts:42  <<>> for null, else <<the Settings object>>
    paused,         \* store.ts:43  the flag's value when it holds a boolean
    pausedUndefined, \* store.ts:43 the flag holds undefined instead of a boolean
    debounceTimer,  \* store.ts:44  id of the last timer set, 0 for undefined
    timers,         \* the window's pending timeouts: records [id, left]
    nextTimer,      \* the id window.setTimeout returns next
    idle,           \* ms since the last setQuery call, capped at DEBOUNCE_MS
    calls,          \* frames of the async store operations, in call order
    nlists,         \* number of list requests issued so far
    lastOk,         \* frame whose list response resolved most recently, 0 if none
    db,             \* backend: clip ids, most recent first
    dbPinned,       \* backend: ids of pinned clips
    nextId,         \* backend: next clip id (ids are never reused)
    trackingPaused, \* backend: tracking-paused setting
    keyEvent,       \* the KeyboardEvent onKeyDown handled last
    root,           \* position of Root's onMount callback
    disposed,       \* Root has been disposed
    cleanup,        \* the onCleanup callback is registered with Root
    subs,           \* channels with a push listener registered
    events,         \* push events emitted to a listener, not yet delivered
    fault,          \* an exception has escaped a push listener
    steps,          \* imageFallbackStep of the rendered rows, in list order
    media           \* backend: which paths each clip's record holds

vars == <<items, loading, query, selectedIndex, settings, paused, debounceTimer,
          timers, nextTimer, idle, calls, nlists, lastOk, db, dbPinned, nextId,
          trackingPaused, pausedUndefined, keyEvent, root, disposed, cleanup,
          subs, events, fault, steps, media>>

storeVars == <<items, loading, query, selectedIndex, settings, paused>>
timerVars == <<debounceTimer, timers, nextTimer, idle>>
backendVars == <<db, dbPinned, nextId, trackingPaused>>
bridgeVars == <<root, disposed, cleanup, subs, events, fault>>

----------------------------------------------------------------------------
\* Bounds of the model.
MaxClips == 2
MaxCalls == 2
MaxQueryLen == 2
MaxTimers == 2
MaxEvents == 2
MaxPending == 1

\* Program constants.
PAGE_SIZE == 100
DEBOUNCE_MS == 90

TickMs == DEBOUNCE_MS \div 2

Chars == {"a", " "}
Whitespace == {" "}
NULL == <<"null">>

Min(a, b) == IF a < b THEN a ELSE b
Max(a, b) == IF a > b THEN a ELSE b

Strings == UNION {[1..n -> Chars] : n \in 0..MaxQueryLen}

----------------------------------------------------------------------------
\* String.prototype.trim: strips whitespace from both ends.
RECURSIVE TrimStart(_)
TrimStart(s) ==
    IF s # <<>> /\ Head(s) \in Whitespace THEN TrimStart(Tail(s)) ELSE s

RECURSIVE TrimEnd(_)
TrimEnd(s) ==
    IF s # <<>> /\ s[Len(s)] \in Whitespace
    THEN TrimEnd(SubSeq(s, 1, Len(s) - 1))
    ELSE s

Trim(s) == TrimEnd(TrimStart(s))

ListQueryArgNoTrim(q) == IF q = <<>> THEN NULL ELSE q

\* The first argument of listClips in reload.
ListQueryArg(q) == IF Trim(q) = <<>> THEN NULL ELSE q

ReloadSelectionNoClamp(currentSelected, length) ==
    IF length = 0 THEN 0 ELSE currentSelected

ReloadSelectionFirst(currentSelected, length) ==
    IF currentSelected >= length THEN 0 ELSE currentSelected

ReloadSelectionReset(currentSelected, length) == 0

\* reload's selection update, from the selection read after setItems and
\* the length of the page.
ReloadSelection(currentSelected, length) ==
    IF length = 0 THEN 0
    ELSE IF currentSelected >= length THEN length - 1
    ELSE currentSelected

SnapshotMerged(prev, page) ==
    prev \o SelectSeq(page, LAMBDA clip : \A i \in 1..Len(prev) : prev[i].id # clip.id)

\* setItems(page.items): the page replaces the previous snapshot as a whole.
SnapshotAfter(prev, page) == page

ReloadsAfterAny(kind) == TRUE

\* Whether the operation awaits reload() after its gateway mutation.
ReloadsAfter(kind) == kind \in {"pin", "remove", "clearAll"}

----------------------------------------------------------------------------
\* Backend behind the gateway.
Content(id) == IF id % 2 = 1 THEN <<"a">> ELSE <<"a", "a">>

Contains(s, q) ==
    \E i \in 1..(Len(s) - Len(q) + 1) : SubSeq(s, i, i + Len(q) - 1) = q

Match(q, id) == q = NULL \/ Contains(Content(id), q)

\* A clip as the backend returns it; thumbPath and mediaPath tell whether the
\* record holds that path. Every clip is an image clip.
ClipOf(id) ==
    [id |-> id, pinned |-> id \in dbPinned, thumbPath |-> media[id].thumbPath,
     mediaPath |-> media[id].mediaPath]

PageFor(req) ==
    LET hits == SelectSeq(db, LAMBDA id : Match(req.query, id))
        last == Min(Len(hits), req.offset + req.limit)
        part == SubSeq(hits, req.offset + 1, last)
    IN  [i \in 1..Len(part) |-> ClipOf(part[i])]

InitialDb(n) == [i \in 1..n |-> n + 1 - i]

DbIds == {db[i] : i \in 1..Len(db)}

----------------------------------------------------------------------------
\* Frames.
\* A frame holds the operation's kind and arguments, its position pc, the list
\* request it awaits (req, NoReq when none), reload's locals page and
\* currentSelected, togglePaused's local next, and two counters: nlist, the list requests it has issued,
\* and seq, the position of its latest list request among all list requests.
NoReq == [raw |-> <<>>, query |-> NULL, limit |-> 0, offset |-> 0,
          st |-> "none", resp |-> <<>>]

Frame(kind, id, pinned, pc) ==
    [kind |-> kind, id |-> id, pinned |-> pinned, pc |-> pc, req |-> NoReq,
     nlist |-> 0, seq |-> 0, page |-> <<>>, currentSelected |-> 0,
     next |-> FALSE]

\* The list request reload issues, from the query text read at that moment.
ListRequest ==
    [raw |-> query, query |-> ListQueryArg(query), limit |-> PAGE_SIZE,
     offset |-> 0, st |-> "sent", resp |-> <<>>]

\* The frame once it has entered reload: setLoading(true), listClips(...).
Reloading(f) ==
    [f EXCEPT !.pc = "list", !.req = ListRequest, !.nlist = @ + 1,
              !.seq = nlists + 1]

CallIds == 1..Len(calls)
CanCall == Len(calls) < MaxCalls

\* The rows of ClipList. App renders the list while loading is off and items
\* is not empty; while it is not rendered, steps keeps the steps the rows had
\* when they were rendered last.
Rendered == ~loading /\ Len(items) > 0

\* For builds a row for each clip object it has not seen, and a row starts at
\* step 0.
FreshRows(currentItems) == [i \in 1..Len(currentItems) |-> 0]

RerenderKeepingSteps(replaced) ==
    steps' = [i \in 1..Len(items') |-> IF i <= Len(steps) THEN steps[i] ELSE 0]

\* The rows after a step that sets loading: replaced tells whether items was
\* set to a new array in that step. The list is rebuilt when it is rendered
\* again after loading, and when items is replaced.
Rerender(replaced) ==
    steps' = IF loading' THEN steps
             ELSE IF replaced \/ loading THEN FreshRows(items')
             ELSE steps

PreviewSrcOriginalFirst(clip, step) ==
    CASE step = 0 -> IF clip.mediaPath THEN "original"
                     ELSE IF clip.thumbPath THEN "thumb" ELSE "none"
      [] step = 1 -> IF clip.mediaPath THEN "original" ELSE "none"
      [] OTHER -> "none"

\* previewSrc: which source the row's img has, "none" for the IMG placeholder.
PreviewSrc(clip, step) ==
    CASE step = 0 -> IF clip.thumbPath THEN "thumb"
                     ELSE IF clip.mediaPath THEN "original" ELSE "none"
      [] step = 1 -> IF clip.mediaPath THEN "original" ELSE "none"
      [] OTHER -> "none"

OnErrorStepGiveUp(step, hasThumb, hasOriginal) == 2

OnErrorStepRetry(step, hasThumb, hasOriginal) ==
    IF step = 0 /\ hasThumb /\ hasOriginal THEN 1
    ELSE IF step = 1 /\ hasThumb THEN 0
    ELSE 2

\* The step the img's onError sets.
OnErrorStep(step, hasThumb, hasOriginal) ==
    IF step = 0 /\ hasThumb /\ hasOriginal THEN 1 ELSE 2

NoKeyEvent ==
    [key |-> "none", defaultPrevented |-> FALSE, isComposing |-> FALSE,
     prevented |-> FALSE, n |-> 0]

----------------------------------------------------------------------------
Init ==
    /\ items = <<>>
    /\ loading = TRUE
    /\ query = <<>>
    /\ selectedIndex = 0
    /\ settings = <<>>
    /\ paused = FALSE
    /\ debounceTimer = 0
    /\ timers = {}
    /\ nextTimer = 1
    /\ idle = DEBOUNCE_MS
    /\ calls = <<>>
    /\ nlists = 0
    /\ lastOk = 0
    /\ \E n \in 0..MaxClips : db = InitialDb(n) /\ nextId = n + 1
    /\ dbPinned = {}
    /\ trackingPaused \in BOOLEAN
    /\ pausedUndefined = FALSE
    /\ keyEvent = NoKeyEvent
    /\ root = "idle"
    /\ disposed = FALSE
    /\ cleanup = FALSE
    /\ subs = {}
    /\ events = <<>>
    /\ fault = FALSE
    /\ steps = <<>>
    /\ media = [id \in 1..MaxClips |-> [thumbPath |-> TRUE, mediaPath |-> TRUE]]

\* init(): getSettings is requested.
CallInit ==
    /\ CanCall
    /\ \A c \in CallIds : calls[c].kind # "init"
    /\ calls' = Append(calls, Frame("init", 0, FALSE, "settings"))
    /\ UNCHANGED <<storeVars, timerVars, backendVars, nlists, lastOk>>
    /\ UNCHANGED <<pausedUndefined, keyEvent, bridgeVars>>
    /\ UNCHANGED <<steps, media>>

GetSettingsResolveNoPause(c) ==
    /\ calls[c].pc = "settings"
    /\ settings' = <<[trackingPaused |-> trackingPaused]>>
    /\ loading' = TRUE
    /\ calls' = [calls EXCEPT ![c] = Reloading(@)]
    /\ nlists' = nlists + 1
    /\ UNCHANGED <<items, query, selectedIndex, paused, pausedUndefined,
                   timerVars, backendVars, lastOk, keyEvent, bridgeVars>>
    /\ Rerender(FALSE)
    /\ UNCHANGED media

\* init(): getSettings resolved; settings and pause flag are set, reload starts.
GetSettingsResolve(c) ==
    /\ calls[c].pc = "settings"
    /\ settings' = <<[trackingPaused |-> trackingPaused]>>
    /\ paused' = trackingPaused
    /\ loading' = TRUE
    /\ calls' = [calls EXCEPT ![c] = Reloading(@)]
    /\ nlists' = nlists + 1
    /\ UNCHANGED <<items, query, selectedIndex, timerVars, backendVars, lastOk>>
    /\ pausedUndefined' = FALSE
    /\ UNCHANGED <<keyEvent, bridgeVars>>
    /\ Rerender(FALSE)
    /\ UNCHANGED media

\* init(): getSettings rejected; init rejects before reload.
GetSettingsReject(c) ==
    /\ calls[c].pc = "settings"
    /\ calls' = [calls EXCEPT ![c].pc = "rejected"]
    /\ UNCHANGED <<storeVars, timerVars, backendVars, nlists, lastOk>>
    /\ UNCHANGED <<pausedUndefined, keyEvent, bridgeVars>>
    /\ UNCHANGED <<steps, media>>

\* reload() called directly (the push-event listeners of main.tsx, the view).
CallReload ==
    /\ CanCall
    /\ loading' = TRUE
    /\ calls' = Append(calls, Reloading(Frame("reload", 0, FALSE, "list")))
    /\ nlists' = nlists + 1
    /\ UNCHANGED <<items, query, selectedIndex, settings, paused, timerVars,
                   backendVars, lastOk>>
    /\ UNCHANGED <<pausedUndefined, keyEvent, bridgeVars>>
    /\ Rerender(FALSE)
    /\ UNCHANGED media

\* copy / pin / remove / clearAll: the gateway mutation is requested.
CallMutation(kind, id, pinned) ==
    /\ CanCall
    /\ calls' = Append(calls, Frame(kind, id, pinned, "mut"))
    /\ UNCHANGED <<storeVars, timerVars, backendVars, nlists, lastOk>>
    /\ UNCHANGED <<pausedUndefined, keyEvent, bridgeVars>>
    /\ UNCHANGED <<steps, media>>

CallCopy(id) == CallMutation("copy", id, FALSE)
CallPin(id, pinned) == CallMutation("pin", id, pinned)
CallRemove(id) == CallMutation("remove", id, FALSE)
CallClearAll == CallMutation("clearAll", 0, FALSE)

\* The backend's effect of a gateway mutation.
DbAfter(f) ==
    CASE f.kind = "remove" -> SelectSeq(db, LAMBDA id : id # f.id)
      [] f.kind = "clearAll" -> <<>>
      [] OTHER -> db

PinnedAfter(f) ==
    CASE f.kind = "pin" ->
            IF f.id \notin DbIds THEN dbPinned
            ELSE IF f.pinned THEN dbPinned \cup {f.id} ELSE dbPinned \ {f.id}
      [] f.kind = "remove" -> dbPinned \ {f.id}
      [] f.kind = "clearAll" -> {}
      [] OTHER -> dbPinned

MutResolveOptimistic(c) ==
    /\ calls[c].pc = "mut"
    /\ db' = DbAfter(calls[c])
    /\ dbPinned' = PinnedAfter(calls[c])
    /\ items' = IF calls[c].kind = "remove"
                THEN SelectSeq(items, LAMBDA clip : clip.id # calls[c].id)
                ELSE IF calls[c].kind = "clearAll" THEN <<>> ELSE items
    /\ IF ReloadsAfter(calls[c].kind)
       THEN /\ loading' = TRUE
            /\ calls' = [calls EXCEPT ![c] = Reloading(@)]
            /\ nlists' = nlists + 1
       ELSE /\ calls' = [calls EXCEPT ![c].pc = "resolved"]
            /\ UNCHANGED <<loading, nlists>>
    /\ UNCHANGED <<query, selectedIndex, settings, paused, timerVars,
                   nextId, trackingPaused, lastOk>>
    /\ UNCHANGED <<pausedUndefined, keyEvent, bridgeVars>>
    /\ Rerender(FALSE)
    /\ UNCHANGED media

\* The gateway mutation resolved: pin, remove and clearAll go on to reload.
MutResolve(c) ==
    /\ calls[c].pc = "mut"
    /\ db' = DbAfter(calls[c])
    /\ dbPinned' = PinnedAfter(calls[c])
    /\ IF ReloadsAfter(calls[c].kind)
       THEN /\ loading' = TRUE
            /\ calls' = [calls EXCEPT ![c] = Reloading(@)]
            /\ nlists' = nlists + 1
       ELSE /\ calls' = [calls EXCEPT ![c].pc = "resolved"]
            /\ UNCHANGED <<loading, nlists>>
    /\ UNCHANGED <<items, query, selectedIndex, settings, paused, timerVars,
                   nextId, trackingPaused, lastOk>>
    /\ UNCHANGED <<pausedUndefined, keyEvent, bridgeVars>>
    /\ Rerender(FALSE)
    /\ UNCHANGED media

\* The gateway mutation rejected: the operation rejects, nothing else happens.
MutRejectReloading(c) ==
    /\ calls[c].pc = "mut"
    /\ loading' = TRUE
    /\ calls' = [calls EXCEPT ![c].pc = "rejected", ![c].nlist = @ + 1,
                              ![c].seq = nlists + 1]
    /\ nlists' = nlists + 1
    /\ UNCHANGED <<items, query, selectedIndex, settings, paused, timerVars,
                   backendVars, lastOk>>
    /\ UNCHANGED <<pausedUndefined, keyEvent, bridgeVars>>
    /\ Rerender(FALSE)
    /\ UNCHANGED media

MutReject(c) ==
    /\ calls[c].pc = "mut"
    /\ calls' = [calls EXCEPT ![c].pc = "rejected"]
    /\ UNCHANGED <<storeVars, timerVars, backendVars, nlists, lastOk>>
    /\ UNCHANGED <<pausedUndefined, keyEvent, bridgeVars>>
    /\ UNCHANGED <<steps, media>>

\* The backend computes the page of a list request.
ListServe(c) ==
    /\ calls[c].pc = "list"
    /\ calls[c].req.st = "sent"
    /\ calls' = [calls EXCEPT ![c].req.st = "served",
                              ![c].req.resp = PageFor(calls[c].req)]
    /\ UNCHANGED <<storeVars, timerVars, backendVars, nlists, lastOk>>
    /\ UNCHANGED <<pausedUndefined, keyEvent, bridgeVars>>
    /\ UNCHANGED <<steps, media>>

ListResolveLatched(c) ==
    /\ calls[c].pc = "list"
    /\ calls[c].req.st = "served"
    /\ LET page == IF \E d \in CallIds : calls[d].pc = "rejected"
                   THEN items ELSE calls[c].req.resp IN
        /\ items' = SnapshotAfter(items, page)
        /\ selectedIndex' = ReloadSelection(selectedIndex, Len(page))
        /\ calls' = [calls EXCEPT ![c].pc = "resolved",
                                  ![c].req = NoReq,
                                  ![c].page = page,
                                  ![c].currentSelected = selectedIndex]
    /\ loading' = FALSE
    /\ lastOk' = c
    /\ UNCHANGED <<query, settings, paused, timerVars, backendVars, nlists>>
    /\ UNCHANGED <<pausedUndefined, keyEvent, bridgeVars>>
    /\ Rerender(TRUE)
    /\ UNCHANGED media

\* reload: listClips resolved.
ListResolve(c) ==
    /\ calls[c].pc = "list"
    /\ calls[c].req.st = "served"
    /\ LET page == calls[c].req.resp IN
        /\ items' = SnapshotAfter(items, page)
        /\ selectedIndex' = ReloadSelection(selectedIndex, Len(page))
        /\ calls' = [calls EXCEPT ![c].pc = "resolved",
                                  ![c].req = NoReq,
                                  ![c].page = page,
                                  ![c].currentSelected = selectedIndex]
    /\ loading' = FALSE
    /\ lastOk' = c
    /\ UNCHANGED <<query, settings, paused, timerVars, backendVars, nlists>>
    /\ UNCHANGED <<pausedUndefined, keyEvent, bridgeVars>>
    /\ Rerender(TRUE)
    /\ UNCHANGED media

ListRejectUncaught(c) ==
    /\ calls[c].pc = "list"
    /\ loading' = FALSE
    /\ calls' = [calls EXCEPT ![c].pc = "rejected", ![c].req = NoReq]
    /\ UNCHANGED <<items, query, selectedIndex, settings, paused, timerVars,
                   backendVars, nlists, lastOk>>
    /\ UNCHANGED <<pausedUndefined, keyEvent, bridgeVars>>
    /\ Rerender(FALSE)
    /\ UNCHANGED media

ListRejectNoFinally(c) ==
    /\ calls[c].pc = "list"
    /\ calls' = [calls EXCEPT
                    ![c].pc = IF calls[c].kind = "timer" THEN "swallowed"
                              ELSE "rejected",
                    ![c].req = NoReq]
    /\ UNCHANGED <<storeVars, timerVars, backendVars, nlists, lastOk>>
    /\ UNCHANGED <<pausedUndefined, keyEvent, bridgeVars>>
    /\ UNCHANGED <<steps, media>>

ListRejectClearing(c) ==
    /\ calls[c].pc = "list"
    /\ loading' = FALSE
    /\ items' = <<>>
    /\ selectedIndex' = 0
    /\ calls' = [calls EXCEPT
                    ![c].pc = IF calls[c].kind = "timer" THEN "swallowed"
                              ELSE "rejected",
                    ![c].req = NoReq]
    /\ UNCHANGED <<query, settings, paused, timerVars, backendVars, nlists,
                   lastOk>>
    /\ UNCHANGED <<pausedUndefined, keyEvent, bridgeVars>>
    /\ Rerender(FALSE)
    /\ UNCHANGED media

\* reload: listClips rejected; the finally block runs and reload rejects.
\* The debounce callback catches the rejection.
ListReject(c) ==
    /\ calls[c].pc = "list"
    /\ loading' = FALSE
    /\ calls' = [calls EXCEPT
                    ![c].pc = IF calls[c].kind = "timer" THEN "swallowed"
                              ELSE "rejected",
                    ![c].req = NoReq]
    /\ UNCHANGED <<items, query, selectedIndex, settings, paused, timerVars,
                   backendVars, nlists, lastOk>>
    /\ UNCHANGED <<pausedUndefined, keyEvent, bridgeVars>>
    /\ Rerender(FALSE)
    /\ UNCHANGED media

SetQueryEager(value) ==
    /\ nextTimer <= MaxTimers
    /\ CanCall
    /\ query' = value
    /\ timers' = {t \in timers : debounceTimer = 0 \/ t.id # debounceTimer}
    /\ debounceTimer' = nextTimer
    /\ nextTimer' = nextTimer + 1
    /\ idle' = 0
    /\ loading' = TRUE
    /\ calls' = Append(calls, [Reloading(Frame("timer", 0, FALSE, "list"))
                                 EXCEPT !.req.raw = value,
                                        !.req.query = ListQueryArg(value)])
    /\ nlists' = nlists + 1
    /\ UNCHANGED <<items, selectedIndex, settings, paused, lastOk, backendVars>>
    /\ UNCHANGED <<pausedUndefined, keyEvent, bridgeVars>>
    /\ Rerender(FALSE)
    /\ UNCHANGED media

\* setQuery(value): the query is set, the pending timer cleared, a new one set.
SetQuery(value) ==
    /\ nextTimer <= MaxTimers
    /\ query' = value
    /\ timers' = {t \in timers : debounceTimer = 0 \/ t.id # debounceTimer}
                    \cup {[id |-> nextTimer, left |-> DEBOUNCE_MS]}
    /\ debounceTimer' = nextTimer
    /\ nextTimer' = nextTimer + 1
    /\ idle' = 0
    /\ UNCHANGED <<items, loading, selectedIndex, settings, paused, calls,
                   nlists, lastOk, backendVars>>
    /\ UNCHANGED <<pausedUndefined, keyEvent, bridgeVars>>
    /\ UNCHANGED <<steps, media>>

\* Time passes.
Tick ==
    /\ idle < DEBOUNCE_MS \/ \E t \in timers : t.left > 0
    /\ idle' = Min(idle + TickMs, DEBOUNCE_MS)
    /\ timers' = {[t EXCEPT !.left = Max(@ - TickMs, 0)] : t \in timers}
    /\ UNCHANGED <<storeVars, debounceTimer, nextTimer, calls, nlists, lastOk,
                   backendVars>>
    /\ UNCHANGED <<pausedUndefined, keyEvent, bridgeVars>>
    /\ UNCHANGED <<steps, media>>

\* A due timer runs its callback: void reload().catch(() => undefined).
TimerFire(t) ==
    /\ t \in timers
    /\ t.left = 0
    /\ CanCall
    /\ timers' = timers \ {t}
    /\ loading' = TRUE
    /\ calls' = Append(calls, Reloading(Frame("timer", 0, FALSE, "list")))
    /\ nlists' = nlists + 1
    /\ UNCHANGED <<items, query, selectedIndex, settings, paused, debounceTimer,
                   nextTimer, idle, backendVars, lastOk>>
    /\ UNCHANGED <<pausedUndefined, keyEvent, bridgeVars>>
    /\ Rerender(FALSE)
    /\ UNCHANGED media

\* setSelectedIndex(i) from a row of the displayed list (ClipList onSelect).
SetSelectedIndex(i) ==
    /\ i \in 0..(Len(items) - 1)
    /\ selectedIndex' = i
    /\ UNCHANGED <<items, loading, query, settings, paused, timerVars, calls,
                   nlists, lastOk, backendVars>>
    /\ UNCHANGED <<pausedUndefined, keyEvent, bridgeVars>>
    /\ UNCHANGED <<steps, media>>

\* Values a caller of the store can hand to setSelectedIndex: the rows of a
\* full list, and one below and one above them.
RawIndexes == (0 - 1)..MaxClips

\* setSelectedIndex(value) as the store exports it: the signal's setter.
SetSelectedIndexRaw(value) ==
    /\ value \in RawIndexes
    /\ selectedIndex' = value
    /\ UNCHANGED <<items, loading, query, settings, paused, timerVars, calls,
                   nlists, lastOk, backendVars>>
    /\ UNCHANGED <<pausedUndefined, keyEvent, bridgeVars>>
    /\ UNCHANGED <<steps, media>>

Keys == {"ArrowDown", "ArrowUp", "Enter", "Backspace", "p"}

\* A KeyboardEvent as onKeyDown leaves it: its key, its defaultPrevented and
\* isComposing as received, whether the handler called preventDefault on it,
\* and n, which tells one event object from the next.
KeyboardEvent(key, defaultPrevented, isComposing, prevented) ==
    [key |-> key, defaultPrevented |-> defaultPrevented,
     isComposing |-> isComposing, prevented |-> prevented,
     n |-> 1 - keyEvent.n]

IgnoredNoComposing(defaultPrevented, isComposing, length) ==
    defaultPrevented \/ length = 0

\* onKeyDown's two early returns.
Ignored(defaultPrevented, isComposing, length) ==
    defaultPrevented \/ isComposing \/ length = 0

KeyActionAnyCopies(key) ==
    CASE key = "ArrowDown" -> "down"
      [] key = "ArrowUp" -> "up"
      [] OTHER -> "copy"

\* The branch of onKeyDown that event.key selects.
KeyAction(key) ==
    CASE key = "ArrowDown" -> "down"
      [] key = "ArrowUp" -> "up"
      [] key = "Enter" -> "copy"
      [] OTHER -> "none"

ArrowDownIndexNoClamp(idx, length) == idx + 1

ArrowUpIndexNoClamp(idx) == idx - 1

ArrowDownIndex(idx, length) == Min(idx + 1, length - 1)
ArrowUpIndex(idx) == Max(idx - 1, 0)

EnterTargetFirst(currentItems, idx) == currentItems[1].id

\* The id Enter copies: active.id, active = currentItems[selectedIndex()].
EnterTarget(currentItems, idx) == currentItems[idx + 1].id

\* onKeyDown(event).
KeyDown(key, defaultPrevented, isComposing) ==
    LET currentItems == items
        action == IF Ignored(defaultPrevented, isComposing, Len(currentItems))
                  THEN "none" ELSE KeyAction(key)
        active == selectedIndex \in 0..(Len(currentItems) - 1)
    IN
    /\ CASE action = "down" ->
              /\ selectedIndex' = ArrowDownIndex(selectedIndex, Len(currentItems))
              /\ keyEvent' = KeyboardEvent(key, defaultPrevented, isComposing, TRUE)
              /\ UNCHANGED calls
         [] action = "up" ->
              /\ selectedIndex' = ArrowUpIndex(selectedIndex)
              /\ keyEvent' = KeyboardEvent(key, defaultPrevented, isComposing, TRUE)
              /\ UNCHANGED calls
         [] action = "copy" /\ active ->
              /\ CanCall
              /\ calls' = Append(calls,
                    Frame("copy", EnterTarget(currentItems, selectedIndex),
                          FALSE, "mut"))
              /\ keyEvent' = KeyboardEvent(key, defaultPrevented, isComposing, TRUE)
              /\ UNCHANGED selectedIndex
         [] OTHER ->
              /\ keyEvent' = KeyboardEvent(key, defaultPrevented, isComposing, FALSE)
              /\ UNCHANGED <<selectedIndex, calls>>
    /\ UNCHANGED <<items, loading, query, settings, paused, pausedUndefined,
                   timerVars, nlists, lastOk, backendVars, bridgeVars>>
    /\ UNCHANGED <<steps, media>>

----------------------------------------------------------------------------
\* Push events.
Channels == <<"clips://created", "clips://updated", "clips://deleted",
              "tracking://changed">>
ClipChannels == {"clips://created", "clips://updated", "clips://deleted"}
TrackingChannel == "tracking://changed"

\* Payloads: shape is "object" or "undefined"; paused is the object's paused
\* member when it is a boolean, as a sequence of at most one element.
NoPayload == [shape |-> "undefined", paused |-> <<>>]
TrackingPayload(b) == [shape |-> "object", paused |-> <<b>>]
EmptyPayload == [shape |-> "object", paused |-> <<>>]
Malformed == {NoPayload, EmptyPayload}

\* The event queue after the backend emits on a channel: an event reaches
\* the window only when a listener is registered.
CanEmit(ch) == ch \notin subs \/ Len(events) < MaxPending
Emitted(ch, payload) ==
    IF ch \in subs THEN Append(events, [ch |-> ch, payload |-> payload])
    ELSE events

\* The clipboard watcher stores a new clip.
BackendCreate ==
    /\ nextId <= MaxClips
    /\ CanEmit("clips://created")
    /\ db' = <<nextId>> \o db
    /\ nextId' = nextId + 1
    /\ events' = Emitted("clips://created", NoPayload)
    /\ UNCHANGED <<storeVars, pausedUndefined, timerVars, calls, nlists, lastOk,
                   dbPinned, trackingPaused, keyEvent, root, disposed, cleanup,
                   subs, fault>>
    /\ UNCHANGED <<steps, media>>

\* The clipboard watcher sees the most recent clip copied again: the clip is
\* updated in place and keeps its position.
BackendTouch ==
    /\ Len(db) >= 1
    /\ CanEmit("clips://updated")
    /\ events' = Emitted("clips://updated", NoPayload)
    /\ UNCHANGED <<storeVars, pausedUndefined, timerVars, calls, nlists, lastOk,
                   backendVars, keyEvent, root, disposed, cleanup, subs, fault>>
    /\ UNCHANGED <<steps, media>>

\* The history is full: the backend prunes the oldest clip.
BackendPrune ==
    /\ Len(db) = MaxClips
    /\ CanEmit("clips://deleted")
    /\ db' = SubSeq(db, 1, Len(db) - 1)
    /\ dbPinned' = dbPinned \ {db[Len(db)]}
    /\ events' = Emitted("clips://deleted", NoPayload)
    /\ UNCHANGED <<storeVars, pausedUndefined, timerVars, calls, nlists, lastOk,
                   nextId, trackingPaused, keyEvent, root, disposed, cleanup,
                   subs, fault>>
    /\ UNCHANGED <<steps, media>>

\* Tracking is paused or resumed outside the window (the tray).
BackendSetTracking(b) ==
    /\ b # trackingPaused
    /\ CanEmit(TrackingChannel)
    /\ trackingPaused' = b
    /\ events' = Emitted(TrackingChannel, TrackingPayload(b))
    /\ UNCHANGED <<storeVars, pausedUndefined, timerVars, calls, nlists, lastOk,
                   db, dbPinned, nextId, keyEvent, root, disposed, cleanup,
                   subs, fault>>
    /\ UNCHANGED <<steps, media>>

\* A tracking-changed event arrives without a usable payload.
EmitMalformed(payload) ==
    /\ TrackingChannel \in subs
    /\ Len(events) < MaxPending
    /\ events' = Append(events, [ch |-> TrackingChannel, payload |-> payload])
    /\ UNCHANGED <<storeVars, pausedUndefined, timerVars, calls, nlists, lastOk,
                   backendVars, keyEvent, root, disposed, cleanup, subs, fault>>
    /\ UNCHANGED <<steps, media>>

----------------------------------------------------------------------------
\* Root (main.tsx): onMount awaits init, registers the four listeners one
\* after the other, then registers the cleanup that releases them.
InitFrames == {c \in CallIds : calls[c].kind = "init"}

\* onMount's callback starts: store.init() is called.
Mount ==
    /\ root = "idle"
    /\ CanCall
    /\ InitFrames = {}
    /\ calls' = Append(calls, Frame("init", 0, FALSE, "settings"))
    /\ root' = "init"
    /\ UNCHANGED <<storeVars, pausedUndefined, timerVars, backendVars, nlists,
                   lastOk, keyEvent, disposed, cleanup, subs, events, fault>>
    /\ UNCHANGED <<steps, media>>

\* store.init() rejected: the callback ends before any listen call.
MountFail ==
    /\ root = "init"
    /\ \E c \in InitFrames : calls[c].pc = "rejected"
    /\ root' = "failed"
    /\ UNCHANGED <<storeVars, pausedUndefined, timerVars, backendVars, calls,
                   nlists, lastOk, keyEvent, disposed, cleanup, subs, events,
                   fault>>
    /\ UNCHANGED <<steps, media>>

\* The next listen call, in the order of Channels, has registered its
\* listener.
Listen ==
    /\ root \in {"init", "listening"}
    /\ \E c \in InitFrames : calls[c].pc = "resolved"
    /\ Cardinality(subs) < Len(Channels)
    /\ subs' = subs \cup {Channels[Cardinality(subs) + 1]}
    /\ root' = "listening"
    /\ UNCHANGED <<storeVars, pausedUndefined, timerVars, backendVars, calls,
                   nlists, lastOk, keyEvent, disposed, cleanup, events, fault>>
    /\ UNCHANGED <<steps, media>>

\* onCleanup is called after the awaits. The cleanup is registered with the
\* owner that is current at that moment: none once Root is disposed, and the
\* awaits may have left none before that.
RegisterCleanup ==
    /\ root = "listening"
    /\ Cardinality(subs) = Len(Channels)
    /\ root' = "ready"
    /\ cleanup' \in (IF disposed THEN {FALSE} ELSE BOOLEAN)
    /\ UNCHANGED <<storeVars, pausedUndefined, timerVars, backendVars, calls,
                   nlists, lastOk, keyEvent, disposed, subs, events, fault>>
    /\ UNCHANGED <<steps, media>>

\* Root is disposed: the registered cleanup calls the four unlisten functions.
Dispose ==
    /\ root # "idle"
    /\ ~disposed
    /\ disposed' = TRUE
    /\ subs' = IF cleanup THEN {} ELSE subs
    /\ UNCHANGED <<storeVars, pausedUndefined, timerVars, backendVars, calls,
                   nlists, lastOk, keyEvent, root, cleanup, events, fault>>
    /\ UNCHANGED <<steps, media>>

\* Event frames are bounded apart from the store's other calls.
CanDeliver ==
    Cardinality({c \in CallIds : calls[c].kind = "event"}) < MaxEvents

DeliverClipsCoalescing ==
    /\ events # <<>>
    /\ Head(events).ch \in ClipChannels \cap subs
    /\ CanDeliver
    /\ events' = Tail(events)
    /\ IF \E c \in CallIds : calls[c].pc = "list"
       THEN UNCHANGED <<loading, calls, nlists>>
       ELSE /\ loading' = TRUE
            /\ calls' = Append(calls, Reloading(Frame("event", 0, FALSE, "list")))
            /\ nlists' = nlists + 1
    /\ UNCHANGED <<items, query, selectedIndex, settings, paused,
                   pausedUndefined, timerVars, backendVars, lastOk, keyEvent,
                   root, disposed, cleanup, subs, fault>>
    /\ Rerender(FALSE)
    /\ UNCHANGED media

\* A created / updated / deleted event reaches its listener: reload().
DeliverClips ==
    /\ events # <<>>
    /\ Head(events).ch \in ClipChannels \cap subs
    /\ CanDeliver
    /\ events' = Tail(events)
    /\ loading' = TRUE
    /\ calls' = Append(calls, Reloading(Frame("event", 0, FALSE, "list")))
    /\ nlists' = nlists + 1
    /\ UNCHANGED <<items, query, selectedIndex, settings, paused,
                   pausedUndefined, timerVars, backendVars, lastOk, keyEvent,
                   root, disposed, cleanup, subs, fault>>
    /\ Rerender(FALSE)
    /\ UNCHANGED media

\* A tracking-changed event reaches its listener:
\* store.setPaused(event.payload.paused). Reading paused of a missing payload
\* throws; a payload without paused stores undefined.
DeliverTracking ==
    /\ events # <<>>
    /\ Head(events).ch = TrackingChannel
    /\ TrackingChannel \in subs
    /\ events' = Tail(events)
    /\ LET payload == Head(events).payload IN
        IF payload.shape = "undefined"
        THEN fault' = TRUE /\ UNCHANGED <<paused, pausedUndefined>>
        ELSE IF payload.paused = <<>>
        THEN pausedUndefined' = TRUE /\ UNCHANGED <<paused, fault>>
        ELSE /\ paused' = payload.paused[1]
             /\ pausedUndefined' = FALSE
             /\ UNCHANGED fault
    /\ UNCHANGED <<items, loading, query, selectedIndex, settings, timerVars,
                   backendVars, calls, nlists, lastOk, keyEvent, root, disposed,
                   cleanup, subs>>
    /\ UNCHANGED <<steps, media>>

\* An event whose listener has been released is not delivered.
DropEvent ==
    /\ events # <<>>
    /\ Head(events).ch \notin subs
    /\ events' = Tail(events)
    /\ UNCHANGED <<storeVars, pausedUndefined, timerVars, backendVars, calls,
                   nlists, lastOk, keyEvent, root, disposed, cleanup, subs,
                   fault>>
    /\ UNCHANGED <<steps, media>>

----------------------------------------------------------------------------
\* ClipRow.
\* The img of row i fails to load.
ImgError(i) ==
    /\ Rendered
    /\ i \in 1..Len(steps)
    /\ PreviewSrc(items[i], steps[i]) # "none"
    /\ steps' = [steps EXCEPT ![i] =
                    OnErrorStep(@, items[i].thumbPath, items[i].mediaPath)]
    /\ UNCHANGED <<storeVars, pausedUndefined, timerVars, backendVars, calls,
                   nlists, lastOk, keyEvent, bridgeVars, media>>

\* A clip's record is stored without one of its paths. The records are
\* settled before the window lists them for the first time.
BackendDropPath(id, path) ==
    /\ nlists = 0
    /\ id \in DbIds
    /\ media[id][path]
    /\ media' = [media EXCEPT ![id][path] = FALSE]
    /\ UNCHANGED <<storeVars, pausedUndefined, timerVars, backendVars, calls,
                   nlists, lastOk, keyEvent, bridgeVars, steps>>

----------------------------------------------------------------------------
\* togglePaused.
\* const next = !paused()
TogglePausedNext(value, undefined) == IF undefined THEN TRUE ELSE ~value

CallTogglePausedOptimistic ==
    /\ CanCall
    /\ calls' = Append(calls,
          [Frame("togglePaused", 0, FALSE, "setTracking")
              EXCEPT !.next = TogglePausedNext(paused, pausedUndefined)])
    /\ paused' = TogglePausedNext(paused, pausedUndefined)
    /\ pausedUndefined' = FALSE
    /\ UNCHANGED <<items, loading, query, selectedIndex, settings, timerVars,
                   backendVars, nlists, lastOk, keyEvent, bridgeVars>>
    /\ UNCHANGED <<steps, media>>

\* togglePaused(): next is computed and setTrackingPaused(next) requested.
CallTogglePaused ==
    /\ CanCall
    /\ calls' = Append(calls,
          [Frame("togglePaused", 0, FALSE, "setTracking")
              EXCEPT !.next = TogglePausedNext(paused, pausedUndefined)])
    /\ UNCHANGED <<storeVars, pausedUndefined, timerVars, backendVars, nlists,
                   lastOk, keyEvent, bridgeVars>>
    /\ UNCHANGED <<steps, media>>

\* setTrackingPaused resolved: the backend has the new value, updateSettings
\* is requested.
SetTrackingResolve(c) ==
    /\ calls[c].pc = "setTracking"
    /\ trackingPaused' = calls[c].next
    /\ calls' = [calls EXCEPT ![c].pc = "updateSettings"]
    /\ UNCHANGED <<storeVars, pausedUndefined, timerVars, db, dbPinned, nextId,
                   nlists, lastOk, keyEvent, bridgeVars>>
    /\ UNCHANGED <<steps, media>>

\* setTrackingPaused rejected: togglePaused rejects.
SetTrackingReject(c) ==
    /\ calls[c].pc = "setTracking"
    /\ calls' = [calls EXCEPT ![c].pc = "rejected"]
    /\ UNCHANGED <<storeVars, pausedUndefined, timerVars, backendVars, nlists,
                   lastOk, keyEvent, bridgeVars>>
    /\ UNCHANGED <<steps, media>>

\* updateSettings resolved: settings and the pause flag are set.
UpdateSettingsResolve(c) ==
    /\ calls[c].pc = "updateSettings"
    /\ trackingPaused' = calls[c].next
    /\ settings' = <<[trackingPaused |-> calls[c].next]>>
    /\ paused' = calls[c].next
    /\ pausedUndefined' = FALSE
    /\ calls' = [calls EXCEPT ![c].pc = "resolved"]
    /\ UNCHANGED <<items, loading, query, selectedIndex, timerVars, db, dbPinned,
                   nextId, nlists, lastOk, keyEvent, bridgeVars>>
    /\ UNCHANGED <<steps, media>>

\* updateSettings rejected: togglePaused rejects.
UpdateSettingsReject(c) ==
    /\ calls[c].pc = "updateSettings"
    /\ calls' = [calls EXCEPT ![c].pc = "rejected"]
    /\ UNCHANGED <<storeVars, pausedUndefined, timerVars, backendVars, nlists,
                   lastOk, keyEvent, bridgeVars>>
    /\ UNCHANGED <<steps, media>>

\* The store's operations from the view and the push listeners, without typing
\* in the search box: the query stays empty.
Next ==
    \/ CallInit
    \/ \E c \in CallIds : GetSettingsResolve(c)
    \/ \E c \in CallIds : GetSettingsReject(c)
    \/ CallReload
    \/ \E i \in 1..Len(items) : CallCopy(items[i].id)
    \/ \E i \in 1..Len(items) : CallPin(items[i].id, ~items[i].pinned)
    \/ \E i \in 1..Len(items) : CallRemove(items[i].id)
    \/ CallClearAll
    \/ \E c \in CallIds : MutResolve(c)
    \/ \E c \in CallIds : MutReject(c)
    \/ \E c \in CallIds : ListServe(c)
    \/ \E c \in CallIds : ListResolve(c)
    \/ \E c \in CallIds : ListReject(c)
    \/ \E i \in 0..MaxClips : SetSelectedIndex(i)
    \/ BackendCreate

Spec == Init /\ [][Next]_vars

\* Typing in the search box: the debounce timer and the reloads it starts.
NextSearch ==
    \/ \E c \in CallIds : ListServe(c)
    \/ \E c \in CallIds : ListResolve(c)
    \/ \E c \in CallIds : ListReject(c)
    \/ \E v \in Strings : SetQuery(v)
    \/ Tick
    \/ \E t \in timers : TimerFire(t)

SpecSearch == Init /\ [][NextSearch]_vars

\* The pause flag: init and togglePaused, called on the store.
NextPause ==
    \/ CallInit
    \/ \E c \in CallIds : GetSettingsResolve(c)
    \/ \E c \in CallIds : GetSettingsReject(c)
    \/ \E c \in CallIds : ListServe(c)
    \/ \E c \in CallIds : ListResolve(c)
    \/ \E c \in CallIds : ListReject(c)
    \/ CallTogglePaused
    \/ \E c \in CallIds : SetTrackingResolve(c)
    \/ \E c \in CallIds : SetTrackingReject(c)
    \/ \E c \in CallIds : UpdateSettingsResolve(c)
    \/ \E c \in CallIds : UpdateSettingsReject(c)

SpecPause == Init /\ [][NextPause]_vars

\* The keyboard: key events on a list that reloads fill and refresh.
NextKeys ==
    \/ CallReload
    \/ \E c \in CallIds : ListServe(c)
    \/ \E c \in CallIds : ListResolve(c)
    \/ \E k \in Keys, dp \in BOOLEAN, ic \in BOOLEAN : KeyDown(k, dp, ic)
    \/ \E c \in CallIds : MutResolve(c)
    \/ \E c \in CallIds : MutReject(c)
    \/ BackendCreate

SpecKeys == Init /\ [][NextKeys]_vars

\* The event bridge's listeners: the backend's push events and their
\* delivery to a Root that stays mounted.
NextEvents ==
    \/ Mount
    \/ \E c \in CallIds : GetSettingsResolve(c)
    \/ \E c \in CallIds : ListServe(c)
    \/ \E c \in CallIds : ListResolve(c)
    \/ Listen
    \/ DeliverClips
    \/ DeliverTracking
    \/ BackendCreate
    \/ BackendTouch
    \/ BackendPrune
    \/ \E b \in BOOLEAN : BackendSetTracking(b)

SpecEvents == Init /\ [][NextEvents]_vars

\* The event bridge's life cycle: Root's mount and disposal, with the
\* tracking-changed events of the backend.
NextBridge ==
    \/ Mount
    \/ MountFail
    \/ \E c \in CallIds : GetSettingsResolve(c)
    \/ \E c \in CallIds : GetSettingsReject(c)
    \/ \E c \in CallIds : ListServe(c)
    \/ \E c \in CallIds : ListResolve(c)
    \/ \E c \in CallIds : ListReject(c)
    \/ Listen
    \/ RegisterCleanup
    \/ Dispose
    \/ DeliverTracking
    \/ DropEvent
    \/ \E b \in BOOLEAN : BackendSetTracking(b)

SpecBridge == Init /\ [][NextBridge]_vars

\* Tracking-changed events, well-formed and not, on a mounted Root.
NextMalformed ==
    \/ Mount
    \/ \E c \in CallIds : GetSettingsResolve(c)
    \/ \E c \in CallIds : ListServe(c)
    \/ \E c \in CallIds : ListResolve(c)
    \/ Listen
    \/ RegisterCleanup
    \/ \E b \in BOOLEAN : BackendSetTracking(b)
    \/ \E payload \in Malformed : EmitMalformed(payload)
    \/ DeliverTracking

SpecMalformed == Init /\ [][NextMalformed]_vars

\* The image rows: reloads that build them, load failures of their images,
\* and clips whose records hold a thumbnail path, an original path, both or
\* neither.
NextRows ==
    \/ CallReload
    \/ \E c \in CallIds : ListServe(c)
    \/ \E c \in CallIds : ListResolve(c)
    \/ \E c \in CallIds : ListReject(c)
    \/ \E i \in 1..MaxClips : ImgError(i)
    \/ \E id \in 1..MaxClips, path \in {"thumbPath", "mediaPath"} :
          BackendDropPath(id, path)
    \/ BackendCreate

SpecRows == Init /\ [][NextRows]_vars

\* The store variant with Enter-to-copy disabled: its onKeyDown dispatches
\* the arrow keys only.
KeyActionNoEnter(key) ==
    CASE key = "ArrowDown" -> "down"
      [] key = "ArrowUp" -> "up"
      [] OTHER -> "none"

OnKeyDownNoEnterCopying(key, defaultPrevented, isComposing) ==
    KeyDown(key, defaultPrevented, isComposing)

\* onKeyDown(event) of the variant.
OnKeyDownNoEnter(key, defaultPrevented, isComposing) ==
    LET currentItems == items
        action == IF Ignored(defaultPrevented, isComposing, Len(currentItems))
                  THEN "none" ELSE KeyActionNoEnter(key)
    IN
    /\ CASE action = "down" ->
              /\ selectedIndex' = ArrowDownIndex(selectedIndex, Len(currentItems))
              /\ keyEvent' = KeyboardEvent(key, defaultPrevented, isComposing, TRUE)
         [] action = "up" ->
              /\ selectedIndex' = ArrowUpIndex(selectedIndex)
              /\ keyEvent' = KeyboardEvent(key, defaultPrevented, isComposing, TRUE)
         [] OTHER ->
              /\ keyEvent' = KeyboardEvent(key, defaultPrevented, isComposing, FALSE)
              /\ UNCHANGED selectedIndex
    /\ UNCHANGED <<items, loading, query, settings, paused, pausedUndefined,
                   timerVars, calls, nlists, lastOk, backendVars, bridgeVars>>
    /\ UNCHANGED <<steps, media>>

NextNoEnter ==
    \/ CallReload
    \/ \E c \in CallIds : ListServe(c)
    \/ \E c \in CallIds : ListResolve(c)
    \/ \E k \in Keys, dp \in BOOLEAN, ic \in BOOLEAN : OnKeyDownNoEnter(k, dp, ic)
    \/ BackendCreate

SpecNoEnter == Init /\ [][NextNoEnter]_vars

----------------------------------------------------------------------------
\* Vocabulary of the properties.

InFlight(c) == calls[c].pc = "list"
Resolved(c) == calls[c].pc = "resolved" /\ calls[c].nlist > 0
Resolves(c) == calls[c].pc = "list" /\ calls'[c].pc = "resolved"
Rejects(c) == calls[c].pc = "list" /\ calls'[c].pc \notin {"list", "resolved"}

\* The store driven through its exported members by any caller: reloads and
\* setSelectedIndex with any value.
NextStoreApi ==
    \/ CallReload
    \/ \E c \in CallIds : ListServe(c)
    \/ \E c \in CallIds : ListResolve(c)
    \/ \E c \in CallIds : ListReject(c)
    \/ \E value \in RawIndexes : SetSelectedIndexRaw(value)
    \/ BackendCreate

SpecStoreApi == Init /\ [][NextStoreApi]_vars

\* Selection in the application: overlapping reloads, the keyboard, row
\* selection from the displayed list, and removals that shrink the list.
NextSelection ==
    \/ CallReload
    \/ \E i \in 1..Len(items) : CallRemove(items[i].id)
    \/ \E c \in CallIds : MutResolve(c)
    \/ \E c \in CallIds : MutReject(c)
    \/ \E c \in CallIds : ListServe(c)
    \/ \E c \in CallIds : ListResolve(c)
    \/ \E c \in CallIds : ListReject(c)
    \/ \E i \in 0..MaxClips : SetSelectedIndex(i)
    \/ \E k \in {"ArrowDown", "ArrowUp"} : KeyDown(k, FALSE, FALSE)
    \/ BackendCreate

SpecSelection == Init /\ [][NextSelection]_vars

InBounds(idx, length) ==
    IF length = 0 THEN idx = 0 ELSE 0 <= idx /\ idx < length

IsBlank(s) == \A i \in 1..Len(s) : s[i] \in Whitespace

\* The effective query of a text: trimmed, the empty result mapped to null.
EffectiveQuery(s) ==
    LET lo == {i \in 1..Len(s) : s[i] \notin Whitespace} IN
    IF lo = {} THEN NULL
    ELSE LET first == CHOOSE i \in lo : \A j \in lo : i <= j
             last == CHOOSE i \in lo : \A j \in lo : i >= j
         IN  SubSeq(s, first, last)

C2_SnapshotIsLastSettledPage ==
    lastOk # 0 => items = calls[lastOk].page

\* Two reloads overlapped and resolved with different non-empty pages; the
\* list shows the page of the one that resolved last.
C2_Witness ==
    \E c1, c2 \in CallIds :
        /\ Resolved(c1) /\ Resolved(c2) /\ lastOk = c1
        /\ calls[c1].seq < calls[c2].seq
        /\ calls[c1].page # <<>> /\ calls[c2].page # <<>>
        /\ calls[c1].page # calls[c2].page
        /\ items = calls[c1].page

\* C3: a stale reload never overwrites a newer one: when the response to the
\* earlier-issued of two list requests resolves after the response to the
\* later-issued one, the list shown once both have settled is the page of the
\* later-issued request.
C3_StaleNeverOverwrites ==
    \A c1, c2 \in CallIds :
        (/\ Resolved(c1) /\ Resolved(c2)
         /\ calls[c1].seq < calls[c2].seq
         /\ lastOk = c1)
        => items = calls[c2].page

\* C4: loading is true in every state in which a list request issued by
\* reload has not yet settled.
C4_LoadingWhileInFlight ==
    (\E c \in CallIds : InFlight(c)) => loading

\* C5: once list requests have been issued and all of them have settled,
\* resolved or rejected, loading is false.
C5_LoadingClearedWhenSettled ==
    (nlists > 0 /\ \A c \in CallIds : ~InFlight(c)) => ~loading

\* Two reloads have settled, one of them rejected, and loading is false.
C5_Witness ==
    /\ ~loading
    /\ \A c \in CallIds : ~InFlight(c)
    /\ \E c1, c2 \in CallIds :
        /\ calls[c1].pc = "rejected" /\ calls[c1].nlist = 1
        /\ Resolved(c2)

\* C6: when the list request of a reload rejects, the operation awaiting it
\* rejects, and the step changes neither the list nor the selection.
C6_RejectKeepsSnapshot ==
    [][\A c \in CallIds :
          Rejects(c) => /\ calls'[c].pc = "rejected"
                        /\ items' = items
                        /\ selectedIndex' = selectedIndex]_vars

\* A reload was rejected while a non-empty list with a selection past the
\* first row was displayed, and both are still there.
C6_Witness ==
    \E c \in CallIds :
        /\ calls[c].pc = "rejected" /\ calls[c].nlist = 1
        /\ lastOk # 0 /\ lastOk < c
        /\ Len(items) > 1 /\ selectedIndex > 0

\* C7: debounce coalescing. Every setQuery leaves exactly one timer pending
\* (the earlier one is cancelled); a timer fires only once DEBOUNCE_MS have
\* passed since the last setQuery, leaves no timer pending, and issues exactly
\* one list request, which carries the effective query of the last setQuery
\* value.
C7_DebounceCoalescing ==
    [][/\ nextTimer' # nextTimer => Cardinality(timers') = 1
       /\ (Len(calls') > Len(calls) /\ calls'[Len(calls')].kind = "timer") =>
            /\ idle >= DEBOUNCE_MS
            /\ timers' = {}
            /\ nlists' = nlists + 1
            /\ calls'[Len(calls')].req.query = EffectiveQuery(query)]_vars

\* C8: for every query text that is empty or only whitespace, the query
\* argument of the list request is null.
C8_BlankQueryIsNull ==
    \A c \in CallIds :
        (InFlight(c) /\ IsBlank(calls[c].req.raw)) => calls[c].req.query = NULL

\* A list request was issued while the query text was whitespace, and it
\* carries null.
C8_Witness ==
    \E c \in CallIds :
        /\ InFlight(c)
        /\ calls[c].req.raw # <<>> /\ IsBlank(calls[c].req.raw)
        /\ calls[c].req.query = NULL

\* C9: every list request carries the effective query of the query text
\* (trimmed, empty mapped to null), limit 100 and offset 0.
C9_RequestCarriesEffectiveQuery ==
    \A c \in CallIds :
        InFlight(c) => /\ calls[c].req.query = EffectiveQuery(calls[c].req.raw)
                       /\ calls[c].req.limit = 100
                       /\ calls[c].req.offset = 0

\* C10: pin, remove and clearAll issue no list request while their gateway
\* mutation is pending and exactly one by the time they resolve; copy issues
\* none.
C10_MutationTriggersOneReload ==
    \A c \in CallIds :
        LET f == calls[c] IN
        /\ f.kind \in {"pin", "remove", "clearAll"} =>
              /\ f.pc = "mut" => f.nlist = 0
              /\ f.pc \in {"list", "resolved"} => f.nlist = 1
        /\ f.kind = "copy" => f.nlist = 0

\* A remove or pin started from a displayed row has resolved after exactly
\* one list request, issued after the initial load's.
C10_Witness ==
    \E c \in CallIds :
        /\ calls[c].kind \in {"pin", "remove"}
        /\ calls[c].pc = "resolved"
        /\ calls[c].nlist = 1
        /\ calls[c].seq = 2

\* C11: togglePaused makes no optimistic flip. The call computes the negation
\* of the flag and leaves the flag alone; the flag stays as it is when
\* setTrackingPaused settles; it becomes the computed value in the step in
\* which updateSettings, requested after setTrackingPaused resolved, resolves;
\* when either request rejects the flag is unchanged and togglePaused rejects.
C11_NoOptimisticFlip ==
    [][ /\ ( /\ Len(calls') = Len(calls) + 1
             /\ calls'[Len(calls')].kind = "togglePaused" ) =>
              /\ paused' = paused
              /\ calls'[Len(calls')].next = ~paused
              /\ calls'[Len(calls')].pc = "setTracking"
        /\ \A c \in CallIds :
              (calls[c].kind = "togglePaused" /\ calls'[c].pc # calls[c].pc) =>
                 /\ calls[c].pc = "setTracking" =>
                       /\ calls'[c].pc \in {"updateSettings", "rejected"}
                       /\ paused' = paused
                 /\ calls[c].pc = "updateSettings" =>
                       /\ calls'[c].pc \in {"resolved", "rejected"}
                       /\ calls'[c].pc = "resolved" => paused' = calls[c].next
                       /\ calls'[c].pc = "rejected" => paused' = paused
                 /\ calls[c].pc \in {"setTracking", "updateSettings"}
      ]_vars

\* A togglePaused has resolved with the flag at the value it computed, and
\* another one has rejected.
C11_Witness ==
    \E c, d \in CallIds :
        /\ calls[c].kind = "togglePaused" /\ calls[d].kind = "togglePaused"
        /\ calls[c].pc = "resolved" /\ calls[d].pc = "rejected"
        /\ paused = calls[c].next

\* C12: the pause flag mirrors the backend. Once init has read the settings,
\* in every state with no togglePaused in flight and no tracking-changed
\* event undelivered, the flag is a boolean and equals the backend's
\* tracking-paused value.
C12_PausedMirrorsBackend ==
    ( /\ \E c \in InitFrames : calls[c].nlist > 0
      /\ \A c \in CallIds :
            calls[c].kind = "togglePaused" =>
                calls[c].pc \in {"resolved", "rejected"}
      /\ events = <<>> )
    => (~pausedUndefined /\ paused = trackingPaused)

\* C13: init requests the settings once, sets the pause flag to the value
\* returned, and only then issues its one list request; when that resolves
\* the list is the page returned and loading is false.
C13_InitSequence ==
    [][ \A c \in CallIds : calls[c].kind = "init" =>
          /\ calls[c].pc = "settings" => calls[c].nlist = 0
          /\ calls[c].pc # "settings" => calls'[c].pc # "settings"
          /\ (calls[c].pc = "settings" /\ calls'[c].pc = "list") =>
                /\ ~pausedUndefined' /\ paused' = trackingPaused
                /\ nlists' = nlists + 1
                /\ calls'[c].nlist = 1
          /\ calls[c].pc = "list" => calls'[c].nlist = 1
          /\ (calls[c].pc = "list" /\ calls'[c].pc = "resolved") =>
                /\ items' = calls[c].req.resp
                /\ loading' = FALSE
      ]_vars

\* init has resolved over a backend that is paused and holds clips: the flag
\* is set, the list is shown, loading is off, one list request was issued.
C13_Witness ==
    \E c \in CallIds :
        /\ calls[c].kind = "init" /\ calls[c].pc = "resolved"
        /\ calls[c].nlist = 1 /\ nlists = 1
        /\ paused /\ trackingPaused
        /\ Len(items) = MaxClips /\ ~loading

\* C14: on a non-empty list of length L with the selection s within 0..L-1,
\* ArrowDown sets the selection to min(s+1, L-1) and ArrowUp to max(s-1, 0);
\* both call preventDefault, start no gateway request and leave items, query
\* and loading unchanged.
C14_ArrowKeysMoveSelection ==
    [][ ( /\ keyEvent'.n # keyEvent.n
          /\ keyEvent'.key \in {"ArrowDown", "ArrowUp"}
          /\ ~keyEvent'.defaultPrevented /\ ~keyEvent'.isComposing
          /\ Len(items) > 0
          /\ selectedIndex \in 0..(Len(items) - 1) ) =>
            /\ keyEvent'.key = "ArrowDown" =>
                  selectedIndex' = IF selectedIndex + 1 < Len(items)
                                   THEN selectedIndex + 1 ELSE Len(items) - 1
            /\ keyEvent'.key = "ArrowUp" =>
                  selectedIndex' = IF selectedIndex > 0
                                   THEN selectedIndex - 1 ELSE 0
            /\ keyEvent'.prevented
            /\ calls' = calls /\ nlists' = nlists
            /\ items' = items /\ query' = query /\ loading' = loading
      ]_vars

\* ArrowDown has moved the selection to the last row of a list of MaxClips
\* rows.
C14_Witness ==
    /\ keyEvent.key = "ArrowDown" /\ keyEvent.prevented
    /\ Len(items) = MaxClips
    /\ selectedIndex = Len(items) - 1

\* C15: onKeyDown does nothing when the event is already default-prevented,
\* or is part of an IME composition, or the list is empty, whatever the key:
\* no state changes, no gateway call starts, preventDefault is not called.
C15_IgnoredKeyEvents ==
    [][ ( /\ keyEvent'.n # keyEvent.n
          /\ \/ keyEvent'.defaultPrevented
             \/ keyEvent'.isComposing
             \/ Len(items) = 0 ) =>
            /\ ~keyEvent'.prevented
            /\ UNCHANGED <<storeVars, pausedUndefined, timerVars, calls, nlists,
                           lastOk, backendVars, bridgeVars>>
      ]_vars

\* Enter arrived during a composition on a non-empty list and nothing was
\* copied.
C15_Witness ==
    /\ keyEvent.key = "Enter" /\ keyEvent.isComposing
    /\ ~keyEvent.defaultPrevented /\ ~keyEvent.prevented
    /\ Len(items) > 0
    /\ \A c \in CallIds : calls[c].kind # "copy"

\* C16: Enter on a non-empty list with the selection s in range starts exactly
\* one copy of the id of items[s] as read at the key press, starts no list
\* request and changes neither items nor the selection; a copy never issues a
\* list request.
C16_EnterCopiesActive ==
    [][ /\ ( /\ keyEvent'.n # keyEvent.n
             /\ keyEvent'.key = "Enter"
             /\ ~keyEvent'.defaultPrevented /\ ~keyEvent'.isComposing
             /\ Len(items) > 0
             /\ selectedIndex \in 0..(Len(items) - 1) ) =>
               /\ Len(calls') = Len(calls) + 1
               /\ SubSeq(calls', 1, Len(calls)) = calls
               /\ calls'[Len(calls')].kind = "copy"
               /\ calls'[Len(calls')].pc = "mut"
               /\ calls'[Len(calls')].id = items[selectedIndex + 1].id
               /\ nlists' = nlists
               /\ items' = items /\ selectedIndex' = selectedIndex
        /\ \A c \in CallIds : calls[c].kind = "copy" => calls[c].nlist = 0
      ]_vars

\* Enter has started the copy of the second row's clip.
C16_Witness ==
    /\ keyEvent.key = "Enter" /\ keyEvent.prevented
    /\ Len(items) = MaxClips /\ selectedIndex = 1
    /\ calls # <<>>
    /\ calls[Len(calls)].kind = "copy"
    /\ calls[Len(calls)].id = items[2].id

\* C17: a key other than ArrowDown, ArrowUp and Enter starts no gateway call
\* (no delete in particular) and changes neither the selection nor the list.
C17_OtherKeysDoNothing ==
    [][ ( /\ keyEvent'.n # keyEvent.n
          /\ keyEvent'.key \notin {"ArrowDown", "ArrowUp", "Enter"} ) =>
            /\ calls' = calls /\ nlists' = nlists
            /\ selectedIndex' = selectedIndex /\ items' = items
            /\ db' = db
      ]_vars

\* Backspace was handled on a shown list with the backend's clips in place.
C17_Witness ==
    /\ keyEvent.key = "Backspace"
    /\ ~keyEvent.defaultPrevented /\ ~keyEvent.isComposing
    /\ Len(items) = MaxClips /\ Len(db) = MaxClips
    /\ calls[Len(calls)].kind = "reload"

\* C18: each created, updated or deleted event delivered to its listener
\* starts exactly one reload, which issues one list request at once, whether
\* or not earlier reloads are in flight; each tracking-changed event with a
\* { paused } payload sets the pause flag to the payload's value, starts no
\* gateway call and issues no list request.
C18_EachEventOneReload ==
    [][ ( /\ events # <<>>
          /\ events' = Tail(events)
          /\ Head(events).ch \in subs ) =>
            /\ Head(events).ch \in ClipChannels =>
                  /\ nlists' = nlists + 1
                  /\ Len(calls') = Len(calls) + 1
                  /\ SubSeq(calls', 1, Len(calls)) = calls
                  /\ calls'[Len(calls')].pc = "list"
                  /\ calls'[Len(calls')].req.st = "sent"
                  /\ calls'[Len(calls')].nlist = 1
                  /\ paused' = paused
            /\ ( /\ Head(events).ch = TrackingChannel
                 /\ Head(events).payload \notin Malformed ) =>
                  /\ ~pausedUndefined'
                  /\ paused' = Head(events).payload.paused[1]
                  /\ calls' = calls
                  /\ nlists' = nlists
      ]_vars

\* MaxEvents reloads started by events are in flight together, after init's,
\* and a tracking-changed event has moved the flag off the value init read.
C18_Witness ==
    /\ Cardinality({c \in CallIds : calls[c].kind = "event" /\ InFlight(c)})
          = MaxEvents
    /\ nlists = MaxEvents + 1
    /\ settings # <<>>
    /\ paused # settings[1].trackingPaused
    /\ events = <<>>

\* C19: the four push subscriptions are released when Root is disposed: once
\* Root is disposed and its onMount callback has ended, no subscription
\* remains, and no push event is delivered to the store from then on.
C19_SubscriptionsReleased ==
    (disposed /\ root \in {"ready", "failed"}) => subs = {}

\* C20: a tracking-changed event whose payload is missing or holds no boolean
\* paused is dropped: in the step that delivers it the pause flag keeps its
\* previous boolean value and no exception escapes the listener.
C20_MalformedTrackingDropped ==
    [][ ( /\ events # <<>>
          /\ events' = Tail(events)
          /\ Head(events).ch = TrackingChannel
          /\ Head(events).ch \in subs
          /\ Head(events).payload \in Malformed ) =>
            /\ paused' = paused
            /\ ~pausedUndefined'
            /\ ~fault'
      ]_vars

\* C21: a row newly built for an image clip shows the thumbnail if the clip
\* has a thumbnail path, otherwise the original if it has an original path,
\* otherwise the placeholder.
C21_InitialPreview ==
    [][ \A c \in CallIds : Resolves(c) =>
          /\ Len(steps') = Len(items')
          /\ \A i \in 1..Len(steps') :
                PreviewSrc(items'[i], steps'[i]) =
                    IF items'[i].thumbPath THEN "thumb"
                    ELSE IF items'[i].mediaPath THEN "original"
                    ELSE "none"
      ]_vars

\* Newly built rows: one clip has only an original path, the other no path.
C21_Witness ==
    /\ Rendered
    /\ \E i, j \in 1..Len(steps) :
          /\ steps[i] = 0 /\ steps[j] = 0
          /\ ~items[i].thumbPath /\ items[i].mediaPath
          /\ ~items[j].thumbPath /\ ~items[j].mediaPath

\* C22: on a load failure while the thumbnail is shown the row goes on to the
\* original exactly when the clip has an original path, and else straight to
\* the placeholder; on a load failure while the original is shown it goes to
\* the placeholder.
C22_FallbackOnError ==
    [][ \A i \in 1..Len(steps) :
          ( /\ calls' = calls /\ items' = items
            /\ Len(steps') = Len(steps)
            /\ steps'[i] # steps[i] ) =>
              LET shown == PreviewSrc(items[i], steps[i])
                  after == PreviewSrc(items[i], steps'[i])
              IN  /\ shown \in {"thumb", "original"}
                  /\ shown = "thumb" =>
                        /\ items[i].mediaPath => after = "original"
                        /\ ~items[i].mediaPath => after = "none"
                  /\ shown = "original" => after = "none"
      ]_vars

\* One row has fallen back to its original, another one, whose clip has a
\* thumbnail path only, went from the thumbnail to the placeholder.
C22_Witness ==
    /\ Rendered
    /\ \E i, j \in 1..Len(steps) :
          /\ steps[i] = 1 /\ items[i].thumbPath /\ items[i].mediaPath
          /\ steps[j] = 2 /\ items[j].thumbPath /\ ~items[j].mediaPath

\* C23: fallback is monotone. While a row stays bound to its clip its preview
\* never moves backward, it starts showing the original after the thumbnail
\* only from a failed thumbnail, and a load failure takes it to the
\* placeholder only when no path is left: from the original, or from the
\* thumbnail of a clip without an original.
C23_FallbackMonotone ==
    [][ ( /\ \A c \in CallIds : ~Resolves(c)
          /\ ~(loading /\ ~loading')
          /\ Len(steps') = Len(steps) ) =>
            \A i \in 1..Len(steps) :
                LET shown == PreviewSrc(items[i], steps[i])
                    after == PreviewSrc(items[i], steps'[i])
                    Rank(src) == CASE src = "thumb" -> 0
                                   [] src = "original" -> 1
                                   [] OTHER -> 2
                IN  /\ steps'[i] >= steps[i]
                    /\ Rank(after) >= Rank(shown)
                    /\ (after = "original" /\ shown # "original") =>
                          shown = "thumb"
                    /\ (after = "none" /\ shown # "none") =>
                          \/ shown = "original"
                          \/ shown = "thumb" /\ ~items[i].mediaPath
      ]_vars

\* A row whose clip has both paths has reached the placeholder.
C23_Witness ==
    /\ Rendered
    /\ \E i \in 1..Len(steps) :
          steps[i] = 2 /\ items[i].thumbPath /\ items[i].mediaPath

\* C24: whenever the rows are built anew, or the clip at a row's position
\* changes to one with another id, the row's step is at its initial value and
\* the row shows the new clip's own thumbnail, original or placeholder.
C24_ResetOnNewClip ==
    [][ \A i \in 1..Len(steps') :
          ( \/ i > Len(steps)
            \/ i <= Len(items) /\ items'[i].id # items[i].id ) =>
              /\ steps'[i] = 0
              /\ PreviewSrc(items'[i], steps'[i]) =
                    IF items'[i].thumbPath THEN "thumb"
                    ELSE IF items'[i].mediaPath THEN "original"
                    ELSE "none"
      ]_vars

\* Two reloads have resolved with different clips in the first position, and
\* the first row is at step 0.
C24_Witness ==
    /\ Rendered
    /\ steps[1] = 0
    /\ \E c, d \in CallIds :
          /\ Resolved(c) /\ d = lastOk /\ c # d
          /\ calls[c].page # <<>> /\ calls[d].page # <<>>
          /\ calls[c].page[1].id # calls[d].page[1].id

\* C25: the placeholder is terminal per clip id. A row that has reached the
\* placeholder through load failures is followed, for as long as its clip's
\* id is displayed, by the placeholder only: also when the list is rendered
\* again after a reload that returns the same clip.
C25_PlaceholderTerminal ==
    [][ \A i \in 1..Len(steps) : \A j \in 1..Len(steps') :
          ( /\ steps[i] = 2
            /\ items[i].thumbPath \/ items[i].mediaPath
            /\ ~loading'
            /\ j <= Len(items')
            /\ items'[j].id = items[i].id ) =>
              PreviewSrc(items'[j], steps'[j]) = "none"
      ]_vars

\* C26: full-replace idempotence. When a reload resolves with the same page
\* as the reload that resolved before it (no backend mutation and no query
\* change between the two), the list snapshot and the selection are after the
\* second what they were after the first.
C26_ReloadIdempotent ==
    [][ \A c \in CallIds :
          ( /\ Resolves(c)
            /\ lastOk # 0
            /\ calls[c].req.resp = calls[lastOk].page ) =>
              /\ items' = items
              /\ selectedIndex' = selectedIndex
      ]_vars

\* Two reloads have resolved one after the other with the same page of
\* MaxClips clips, the second with the last row selected.
C26_Witness ==
    \E c, d \in CallIds :
        /\ c # d /\ d = lastOk
        /\ Resolved(c) /\ Resolved(d)
        /\ calls[c].page = calls[d].page
        /\ Len(items) = MaxClips
        /\ calls[d].currentSelected = MaxClips - 1
        /\ selectedIndex = MaxClips - 1

\* C28: a failed refresh is recoverable. After rejected reloads, a reload
\* that resolves sets items to the page the backend returned for it and
\* leaves loading false; rejections leave nothing behind that stops it.
C28_RecoverableAfterFailure ==
    [][ \A c \in CallIds :
          ( /\ Resolves(c)
            /\ \E d \in CallIds : calls[d].pc \in {"rejected", "swallowed"} ) =>
              /\ items' = calls[c].req.resp
              /\ loading' = FALSE
      ]_vars

\* A reload was rejected and a later one has resolved: the list shows the
\* backend's clips and loading is off.
C28_Witness ==
    \E c, d \in CallIds :
        /\ calls[d].pc = "rejected" /\ calls[d].nlist > 0
        /\ Resolved(c) /\ calls[c].seq > calls[d].seq
        /\ lastOk = c
        /\ Len(items) = MaxClips
        /\ \A i \in 1..Len(items) : items[i].id = db[i]
        /\ ~loading

\* C29: items changes only in the step in which a reload's list request
\* resolves, and is then the page returned, as a whole; no other step of the
\* store changes it.
C29_ItemsOnlyByResolvedReload ==
    [][ items' # items =>
          \E c \in CallIds : Resolves(c) /\ items' = calls[c].req.resp
      ]_vars

\* A remove has resolved in the backend and awaits its reload: the removed
\* clip is still in items.
C29_Witness ==
    \E c \in CallIds :
        /\ calls[c].kind = "remove" /\ calls[c].pc = "list"
        /\ calls[c].id \notin DbIds
        /\ \E i \in 1..Len(items) : items[i].id = calls[c].id

\* C27: setSelectedIndex(i) clamps: for every integer i, with a list of
\* L > 0 clips the selection afterwards is max(0, min(i, L - 1)).
C27_SetSelectedIndexClamps ==
    [][ \A value \in RawIndexes :
          (SetSelectedIndexRaw(value) /\ Len(items) > 0) =>
              selectedIndex' = Max(0, Min(value, Len(items) - 1))
      ]_vars

\* C30: in every reachable state, whatever the order in which overlapping
\* reloads complete between arrow keys and selections of displayed rows, the
\* selection is a row of the list, and 0 when the list is empty.
C30_SelectionInBounds == InBounds(selectedIndex, Len(items))

\* Two reloads have completed, the later-called first, and the list shrank
\* under a selection on its last row, which is the last row again.
C30_Witness ==
    \E c, d \in CallIds :
        /\ c < d /\ lastOk = c
        /\ Resolved(c) /\ Resolved(d)
        /\ calls[c].currentSelected >= Len(calls[c].page)
        /\ Len(items) > 0
        /\ selectedIndex = Len(items) - 1

\* C31: setQuery(text) sets query to text in the call itself and issues no
\* list request: no call starts, and items, selectedIndex and loading are as
\* before. They stay so while the debounce time passes: a step in which no
\* call starts or settles changes none of them.
C31_SetQueryOnlySchedules ==
    [][ /\ \A v \in Strings :
             SetQuery(v) =>
                 /\ query' = v
                 /\ calls' = calls /\ nlists' = nlists
                 /\ items' = items
                 /\ selectedIndex' = selectedIndex
                 /\ loading' = loading
        /\ calls' = calls =>
                 /\ items' = items
                 /\ selectedIndex' = selectedIndex
                 /\ loading' = loading
                 /\ nlists' = nlists
      ]_vars

\* After a reload resolved, setQuery was called with another text and part
\* of the debounce time has passed: the list shown is still that reload's
\* page, loading is off and no further list request was issued.
C31_Witness ==
    /\ lastOk # 0 /\ ~loading
    /\ \E t \in timers : t.id = debounceTimer /\ 0 < t.left /\ t.left < DEBOUNCE_MS
    /\ query # <<>>
    /\ \A c \in CallIds : Resolved(c)
    /\ items = calls[lastOk].page /\ Len(items) > 0
    /\ nlists = Len(calls)

\* C32: when the reload started by the debounce timer rejects, the timer
\* callback catches the rejection (the call ends swallowed, not rejected),
\* loading is cleared, and the debounce state is untouched, so that a later
\* setQuery schedules a timer whose reload runs.
C32_DebounceSwallowsRejection ==
    [][ \A c \in CallIds :
          (Rejects(c) /\ calls[c].kind = "timer") =>
              /\ calls'[c].pc = "swallowed"
              /\ loading' = FALSE
              /\ timers' = timers
              /\ debounceTimer' = debounceTimer
              /\ nextTimer' = nextTimer
      ]_vars

\* A debounced reload was rejected; setQuery was called afterwards and the
\* reload of its timer has resolved.
C32_Witness ==
    \E c, d \in CallIds :
        /\ calls[c].kind = "timer" /\ calls[c].pc = "swallowed"
        /\ calls[d].kind = "timer" /\ Resolved(d) /\ c < d
        /\ lastOk = d /\ ~loading
        /\ calls[d].page = items
        /\ timers = {}

\* C33: in the store variant with Enter-to-copy disabled, an Enter key event
\* starts no call (neither copyClip nor any other gateway call), changes no
\* store state and is not default-prevented, whatever the list and the
\* selection.
C33_EnterDisabled ==
    [][ (keyEvent' # keyEvent /\ keyEvent'.key = "Enter") =>
            /\ calls' = calls /\ nlists' = nlists
            /\ UNCHANGED storeVars
            /\ UNCHANGED backendVars
            /\ ~keyEvent'.prevented
      ]_vars

\* Enter was pressed, neither default-prevented nor composing, with the
\* second row of a full list selected and nothing in flight: no copy call
\* exists.
C33_Witness ==
    /\ keyEvent.key = "Enter"
    /\ ~keyEvent.defaultPrevented /\ ~keyEvent.isComposing
    /\ Len(items) = MaxClips /\ selectedIndex = 1
    /\ ~loading
    /\ \A c \in CallIds : calls[c].kind # "copy" /\ Resolved(c)

\* C34: when the gateway mutation call of pin, remove or clearAll rejects,
\* that call issues no list request, items, selectedIndex and loading are
\* unchanged, and the call ends rejected (the rejection reaches the caller).
C34_MutationRejectNoReload ==
    [][ \A c \in CallIds :
          ( /\ calls[c].pc = "mut"
            /\ calls[c].kind \in {"pin", "remove", "clearAll"}
            /\ calls'[c].pc \notin {"mut", "list", "resolved"} ) =>
              /\ calls'[c].pc = "rejected"
              /\ calls'[c].nlist = 0
              /\ nlists' = nlists
              /\ items' = items
              /\ selectedIndex' = selectedIndex
              /\ loading' = loading
              /\ UNCHANGED backendVars
      ]_vars

\* A remove of a displayed clip was rejected: the call issued no list
\* request, the clip is still displayed and still in the backend.
C34_Witness ==
    \E c \in CallIds :
        /\ calls[c].kind = "remove" /\ calls[c].pc = "rejected"
        /\ calls[c].nlist = 0
        /\ \E i \in 1..Len(items) : items[i].id = calls[c].id
        /\ calls[c].id \in DbIds
        /\ ~loading
        /\ nlists = 1

\* C35: reload's selection update is exactly: a page of length L = 0 gives
\* 0; a prior index >= L gives L - 1; otherwise the index is left as it was,
\* also when the clip at that position is now another clip.
C35_ReloadSelectionExact ==
    [][ \A c \in CallIds :
          Resolves(c) =>
              LET L == Len(calls[c].req.resp) IN
              selectedIndex' = IF L = 0 THEN 0
                               ELSE IF selectedIndex >= L THEN L - 1
                               ELSE selectedIndex
      ]_vars

\* A reload resolved with a full page while the selection was past its end:
\* the selection is the last row, which is not the first.
C35_Witness ==
    \E c \in CallIds :
        /\ Resolved(c) /\ lastOk = c
        /\ Len(calls[c].page) = MaxClips
        /\ calls[c].currentSelected >= MaxClips
        /\ items = calls[c].page
        /\ selectedIndex = MaxClips - 1

\* C36: search results match the search text. Once no debounce timer is
\* pending and every list request issued has resolved, the displayed items
\* are the backend's result for the text now in query, not for an earlier
\* text, in whatever order overlapping reloads completed.
C36_ResultsMatchQuery ==
    ( /\ timers = {}
      /\ nlists > 0
      /\ \A c \in CallIds : Resolved(c) )
    => items = PageFor(ListRequest)

\* C37: when init settles, resolved or rejected (also when getSettings
\* rejects before any list request was made), loading is false.
C37_LoadingClearedAfterInit ==
    [][ \A c \in CallIds :
          ( /\ calls[c].kind = "init"
            /\ calls[c].pc \in {"settings", "list"}
            /\ calls'[c].pc \in {"resolved", "rejected"} ) =>
              loading' = FALSE
      ]_vars

\* C38: no backend change is missed at startup. Once Root listens on every
\* channel, no notification is pending and every reload has resolved, the
\* last-issued one last, the displayed list is the backend's list for the
\* current query.
C38_NoChangeMissedAtStartup ==
    ( /\ root = "listening"
      /\ ClipChannels \subseteq subs
      /\ events = <<>>
      /\ \A c \in CallIds : Resolved(c)
      /\ lastOk = Len(calls) )
    => items = PageFor(ListRequest)

====
